---- MODULE Spec2Model ----
(***************************************************************************)
(* Model of src/debug.js: the environment report of three sections         *)
(* (System, Node, Git) run by an async IIFE.  Every async function         *)
(* invocation (the IIFE, each section(...) call with its callback) is a    *)
(* coroutine with its own position; awaits are the suspension points.      *)
(* Strings whose characters matter are sequences of one-character strings. *)
(***************************************************************************)
EXTENDS Integers, Sequences, FiniteSets, TLC

\* ------------------------------------------------------------------ bounds

\* largest terminal width tried (process.stdout.columns)
MaxWidth == 11
\* largest divergence count `wc -l` reports
MaxDiff == 11
\* time is counted in units of 1/DayUnits of a day
DayUnits == 2
\* timestamps range over 0 .. MaxDays * DayUnits + 1
MaxDays == 7

\* ------------------------------------------------------- program constants

\* process.stdout.columns of a stream that is not a terminal
Undefined == -1
\* const threshold = 10
threshold == 10
\* moment().diff(lastInstall, 'days') >= 7
staleDays == 7
\* expected.slice(2)
sliceFrom == 2
\* WIDTH - name.length - 4
margin == 4

expected == <<"v", "1", "2", ".", "1", "8", ".", "3">>
mainBranch == <<"d", "e", "v", "e", "l", "o", "p">>

Titles ==
  << <<"S", "y", "s", "t", "e", "m">>, <<"N", "o", "d", "e">>, <<"G", "i", "t">> >>
Sections == 1..3

\* ------------------------------------------------------------- environment

Outcome == {"ok", "fail"}
Widths == {Undefined} \cup (0..MaxWidth)
Versions ==
  { <<"v", "1", "2", ".", "1", "8", ".", "3">>,
    <<"v", "1", "4", ".", "0", ".", "0">>,
    <<"v", "1", "2", ".", "1", "8", ".", "4">> }
\* what `echo $NVM_DIR` writes: the value (or nothing) and a newline
NvmDirStdout == { <<"\n">>, <<"/", "n", "\n">> }
Branches == { <<"d", "e", "v", "e", "l", "o", "p">>, <<"f", "i", "x">> }
\* what `git status --porcelain` writes
StatusStdout == { <<>>, <<" ", "M", " ", "a", "\n">> }
MaxTime == MaxDays * DayUnits + 1
Times == 0..MaxTime
\* the clock readings of moment(): the last two instants of the window
Nows == {MaxTime - 1, MaxTime}
\* how the runtime treats the unhandled rejection of the IIFE's promise:
\* "warn" is the default of Node 12 (the version the script expects),
\* "throw" the default from Node 15 on
RejectionModes == {"warn", "throw"}

\* ------------------------------------------------------------ JS helpers

IsSpace(c) == c \in {" ", "\n", "\t"}

RECURSIVE TrimStart(_)
TrimStart(s) ==
  IF s # <<>> /\ IsSpace(Head(s)) THEN TrimStart(Tail(s)) ELSE s

RECURSIVE TrimEnd(_)
TrimEnd(s) ==
  IF s # <<>> /\ IsSpace(s[Len(s)]) THEN TrimEnd(SubSeq(s, 1, Len(s) - 1)) ELSE s

\* String.prototype.trim
Trim(s) == TrimEnd(TrimStart(s))

\* String.prototype.slice(k) with 0 <= k
Slice(s, k) == SubSeq(s, k + 1, Len(s))

\* String.prototype.includes
Contains(s, sub) ==
  \E i \in 1..(Len(s) - Len(sub) + 1) : SubSeq(s, i, i + Len(sub) - 1) = sub

DigitChar == <<"0", "1", "2", "3", "4", "5", "6", "7", "8", "9">>
DigitVal(c) == (CHOOSE d \in 1..10 : DigitChar[d] = c) - 1
IsDigit(c) == \E d \in 1..10 : DigitChar[d] = c

\* decimal rendering of a natural number, as a subprocess writes it
RECURSIVE Digits(_)
Digits(n) ==
  IF n < 10 THEN <<DigitChar[n + 1]>> ELSE Digits(n \div 10) \o <<DigitChar[(n % 10) + 1]>>

RECURSIVE ParseNum(_)
ParseNum(s) ==
  IF s = <<>> THEN 0
  ELSE ParseNum(SubSeq(s, 1, Len(s) - 1)) * 10 + DigitVal(s[Len(s)])

\* Number(string) of a trimmed string of digits; the empty string is 0
Number(s) == ParseNum(s)

RECURSIVE SplitDots(_)
SplitDots(s) ==
  IF s = <<>> THEN << <<>> >>
  ELSE LET rest == SplitDots(Tail(s))
       IN  IF Head(s) = "." THEN << <<>> >> \o rest
           ELSE << <<Head(s)>> \o Head(rest) >> \o Tail(rest)

\* semver's parse of "v<major>.<minor>.<patch>" (the leading v is optional)
ParseSemver(s) ==
  LET body == IF s # <<>> /\ Head(s) = "v" THEN Tail(s) ELSE s
      parts == SplitDots(body)
  IN  [n \in 1..Len(parts) |-> ParseNum(parts[n])]

\* semver.satisfies(version, range) for a range that is one plain version
satisfies(version, range) == ParseSemver(version) = ParseSemver(range)

\* String.prototype.repeat(W - sub): W undefined gives NaN, which counts as 0;
\* a negative count raises RangeError
Repeat(c, W, sub) ==
  IF W = Undefined THEN [raised |-> FALSE, value |-> <<>>]
  ELSE IF W - sub < 0 THEN [raised |-> TRUE, value |-> <<>>]
  ELSE [raised |-> FALSE, value |-> [i \in 1..(W - sub) |-> c]]

\* truncation toward zero (moment's absFloor)
AbsFloor(x, d) == IF x < 0 THEN -((-x) \div d) ELSE x \div d

\* moment(later).diff(earlier, 'days')
DiffDays(later, earlier) == AbsFloor(later - earlier, DayUnits)

\* ------------------------------------------------------------ the program

\* const exec = command => cp.execSync(command).toString().trim()
exec(outcome, stdout) ==
  IF outcome = "ok" THEN [raised |-> FALSE, value |-> Trim(stdout)]
  ELSE [raised |-> TRUE, value |-> <<>>]

\* promisify(fs.stat)(path).birthtime / promisify(fs.readdir)(path)
fsCall(outcome, value) ==
  IF outcome = "ok" THEN [raised |-> FALSE, value |-> value]
  ELSE [raised |-> TRUE, value |-> 0]

\* variant: ping without its try/catch
ping_Rethrows(outcome) == [raised |-> outcome # "ok", value |-> TRUE]

ping(outcome) == [raised |-> FALSE, value |-> (outcome = "ok")]

hasInternetAccess(outcome) == [raised |-> FALSE, value |-> (outcome = "ok")]

isDockerRunning(outcome) == [raised |-> FALSE, value |-> (outcome = "ok")]

\* one printed line: who printed it, on which console method, what it is
Line(s, ch, tag, text, val) == <<s, ch, tag, text, val>>
By(l) == l[1]
Ch(l) == l[2]
Tag(l) == l[3]
Text(l) == l[4]
Val(l) == l[5]

\* const log = console.log.bind(console)
log(s, tag, val) == Line(s, "log", tag, <<>>, val)

\* const error = message => console.error(chalk.red(`-> ${message}`))
error(s, tag, message) == Line(s, "error", tag, <<"-> ">> \o message, "")

\* const warn = message => console.warn(chalk.yellow(`-> ${message}`))
warn(s, tag, message) == Line(s, "warn", tag, <<"-> ">> \o message, "")

Bool(b) == IF b THEN "true" ELSE "false"

\* variant: a margin that is one short
Padding_OffByOne(W, name) == Repeat(" ", W, Len(name) + margin - 1)

\* the padding of the title line
Padding(W, name) == Repeat(" ", W, Len(name) + margin)

\* what section(name, callback) prints before it calls callback: the lines
\* (colour codes left out), and whether computing the title line raised
SectionLines(s, W, name) ==
  LET line == Repeat("=", W, 0)
      pad  == Padding(W, name)
      l1   == Line(s, "log", "divider", line.value, "")
      l2   == Line(s, "log", "title", <<"*", " ">> \o name \o pad.value \o <<" ", "*">>, "")
  IN  IF line.raised THEN [raised |-> TRUE, lines |-> <<>>]
      ELSE IF pad.raised THEN [raised |-> TRUE, lines |-> <<l1>>]
      ELSE [raised |-> FALSE, lines |-> <<l1, l2, l1>>]

\* the exit status of a process whose main promise was rejected and unhandled
ExitOnRejection(mode) == IF mode = "throw" THEN 1 ELSE 0

VARIABLES
  columns,      \* process.stdout.columns (the terminal is not resized during a run)
  mainPc,       \* the IIFE: "call", "await", "done", "rejected"
  mainSec,      \* the section the IIFE is at
  pcS,          \* position of each section(...) invocation
  out,          \* the lines printed so far
  pending,      \* asynchronous operations in flight
  raised,       \* where an error was raised, or "none"
  obs,          \* outcomes of the three trapped probes as the environment gave them
  exited, exitCode,
  onVPN,
  nodeVersion, hasNvm, lastInstall, now, oldInstall,
  branch, difference

mainVars == <<mainPc, mainSec, exited, exitCode>>
sysLocals == <<onVPN>>
nodeLocals == <<nodeVersion, hasNvm, lastInstall, now, oldInstall>>
gitLocals == <<branch, difference>>
vars ==
  <<columns, mainPc, mainSec, pcS, out, pending, raised, obs, exited, exitCode,
    onVPN, nodeVersion, hasNvm, lastInstall, now, oldInstall, branch, difference>>

Init ==
  /\ columns \in Widths
  /\ mainPc = "call"
  /\ mainSec = 1
  /\ pcS = [s \in Sections |-> "idle"]
  /\ out = <<>>
  /\ pending = {}
  /\ raised = "none"
  /\ obs = [https |-> "none", dns |-> "none", docker |-> "none"]
  /\ exited = FALSE
  /\ exitCode = 0
  /\ onVPN = FALSE
  /\ nodeVersion = <<>>
  /\ hasNvm = FALSE
  /\ lastInstall = 0
  /\ now = 0
  /\ oldInstall = FALSE
  /\ branch = <<>>
  /\ difference = 0

Goto(s, l) == pcS' = [pcS EXCEPT ![s] = l]

\* the locals of a section body go out of scope when the body is over
DropLocals(s) ==
  /\ onVPN' = IF s = 1 THEN FALSE ELSE onVPN
  /\ nodeVersion' = IF s = 2 THEN <<>> ELSE nodeVersion
  /\ hasNvm' = IF s = 2 THEN FALSE ELSE hasNvm
  /\ lastInstall' = IF s = 2 THEN 0 ELSE lastInstall
  /\ now' = IF s = 2 THEN 0 ELSE now
  /\ oldInstall' = IF s = 2 THEN FALSE ELSE oldInstall
  /\ branch' = IF s = 3 THEN <<>> ELSE branch
  /\ difference' = IF s = 3 THEN 0 ELSE difference

\* an error raised at position l of section s rejects the section's promise
Fail(s, l) ==
  /\ pcS' = [pcS EXCEPT ![s] = "rejected"]
  /\ raised' = l
  /\ DropLocals(s)

\* a step of section s that only prints one line
LogStep(s, from, to, l) ==
  /\ pcS[s] = from
  /\ out' = Append(out, l)
  /\ Goto(s, to)
  /\ UNCHANGED <<columns, mainVars, pending, raised, obs, sysLocals, nodeLocals, gitLocals>>

\* ------------------------------------------------------------ the IIFE

\* variant: section(...) called without await
AwaitSettled_NoAwait(s) == pcS[s] # "idle"

\* `await section(...)`: the IIFE goes on once the section's promise is settled
AwaitSettled(s) == pcS[s] \in {"returned", "rejected"}

MainCall ==
  /\ mainPc = "call"
  /\ pcS[mainSec] = "idle"
  /\ Goto(mainSec, "banner")
  /\ mainPc' = "await"
  /\ UNCHANGED <<columns, mainSec, exited, exitCode, out, pending, raised, obs,
                 sysLocals, nodeLocals, gitLocals>>

MainNext ==
  /\ mainPc = "await"
  /\ AwaitSettled(mainSec)
  /\ pcS[mainSec] # "rejected"
  /\ mainSec < 3
  /\ mainSec' = mainSec + 1
  /\ mainPc' = "call"
  /\ UNCHANGED <<columns, exited, exitCode, pcS, out, pending, raised, obs,
                 sysLocals, nodeLocals, gitLocals>>

MainDone ==
  /\ mainPc = "await"
  /\ AwaitSettled(mainSec)
  /\ pcS[mainSec] # "rejected"
  /\ mainSec = 3
  /\ mainPc' = "done"
  /\ exited' = TRUE
  /\ exitCode' = 0
  /\ UNCHANGED <<columns, mainSec, pcS, out, pending, raised, obs,
                 sysLocals, nodeLocals, gitLocals>>

\* nothing handles the rejection of the IIFE's promise
MainRejected ==
  /\ mainPc = "await"
  /\ AwaitSettled(mainSec)
  /\ pcS[mainSec] = "rejected"
  /\ \E mode \in RejectionModes :
       /\ mainPc' = "rejected"
       /\ exited' = TRUE
       /\ exitCode' = ExitOnRejection(mode)
  /\ UNCHANGED <<columns, mainSec, pcS, out, pending, raised, obs,
                 sysLocals, nodeLocals, gitLocals>>

\* ------------------------------------------------------------ section

FirstLabel == <<"ping", "nodeV", "branch">>

Banner(s) ==
  /\ pcS[s] = "banner"
  /\ LET r == SectionLines(s, columns, Titles[s])
     IN  /\ out' = out \o r.lines
         /\ IF r.raised
            THEN Fail(s, "banner")
            ELSE /\ Goto(s, FirstLabel[s])
                 /\ UNCHANGED <<raised, sysLocals, nodeLocals, gitLocals>>
  /\ UNCHANGED <<columns, mainVars, pending, obs>>

\* console.log('') once the callback's promise is fulfilled
Blank(s) ==
  /\ pcS[s] = "blank"
  /\ out' = Append(out, log(s, "blank", ""))
  /\ Goto(s, "returned")
  /\ DropLocals(s)
  /\ UNCHANGED <<columns, mainVars, pending, raised, obs>>

\* ------------------------------------------------------------ System

\* variant: the DNS resolution is started together with the HTTPS probe
PingStart_FanOut ==
  /\ pcS[1] = "ping"
  /\ pending' = pending \cup {"https", "dns"}
  /\ Goto(1, "pingWait")
  /\ UNCHANGED <<columns, mainVars, out, raised, obs, sysLocals, nodeLocals, gitLocals>>

PingStart ==
  /\ pcS[1] = "ping"
  /\ pending' = pending \cup {"https"}
  /\ Goto(1, "pingWait")
  /\ UNCHANGED <<columns, mainVars, out, raised, obs, sysLocals, nodeLocals, gitLocals>>

PingDone ==
  /\ pcS[1] = "pingWait"
  /\ \E o \in Outcome :
       LET r == ping(o)
       IN  /\ obs' = [obs EXCEPT !.https = o]
           /\ IF r.raised
              THEN Fail(1, "pingWait")
              ELSE /\ Goto(1, "username")
                   /\ onVPN' = r.value
                   /\ UNCHANGED <<raised, nodeLocals, gitLocals>>
  /\ pending' = pending \ {"https"}
  /\ UNCHANGED <<columns, mainVars, out>>

Username == LogStep(1, "username", "distribution", log(1, "Username:", ""))

Distribution == LogStep(1, "distribution", "cpus", log(1, "Distribution:", ""))

Cpus == LogStep(1, "cpus", "internet", log(1, "CPUs:", ""))

InternetStart ==
  /\ pcS[1] = "internet"
  /\ pending' = pending \cup {"dns"}
  /\ Goto(1, "internetWait")
  /\ UNCHANGED <<columns, mainVars, out, raised, obs, sysLocals, nodeLocals, gitLocals>>

InternetDone ==
  /\ pcS[1] = "internetWait"
  /\ \E o \in Outcome :
       LET r == hasInternetAccess(o)
       IN  /\ obs' = [obs EXCEPT !.dns = o]
           /\ IF r.raised
              THEN Fail(1, "internetWait") /\ UNCHANGED out
              ELSE /\ Goto(1, "vpn")
                   /\ out' = Append(out, log(1, "Internet:", Bool(r.value)))
                   /\ UNCHANGED <<raised, sysLocals, nodeLocals, gitLocals>>
  /\ pending' = pending \ {"dns"}
  /\ UNCHANGED <<columns, mainVars>>

Vpn == LogStep(1, "vpn", "docker", log(1, "VPN:", Bool(onVPN)))

Docker ==
  /\ pcS[1] = "docker"
  /\ \E o \in Outcome :
       LET r == isDockerRunning(o)
       IN  /\ obs' = [obs EXCEPT !.docker = o]
           /\ IF r.raised
              THEN Fail(1, "docker") /\ UNCHANGED out
              ELSE /\ Goto(1, "blank")
                   /\ out' = Append(out, log(1, "Docker running:", Bool(r.value)))
                   /\ UNCHANGED <<raised, sysLocals, nodeLocals, gitLocals>>
  /\ UNCHANGED <<columns, mainVars, pending>>

\* ------------------------------------------------------------ Node

\* variant: strictly more than 7 days
IsOldInstall_MoreThan(n, l) == DiffDays(n, l) > staleDays

\* moment().diff(lastInstall, 'days') >= 7
IsOldInstall(n, l) == DiffDays(n, l) >= staleDays

\* nvm install ${expected.slice(2)}
Remediation(e) == <<"nvm install ">> \o Slice(e, sliceFrom)

\* Installed Node version (${nodeVersion}) does not satisfy expectations (${expected}); please update.
Mismatch(v, e) ==
  <<"Installed Node version (">> \o v \o <<") does not satisfy expectations (">>
    \o e \o <<"); please update.">>

\* variant: the version is logged as soon as it is read, before the stat
NodeV_LogsFirst ==
  /\ pcS[2] = "nodeV"
  /\ \E o \in Outcome, v \in Versions :
       LET r == exec(o, v \o <<"\n">>)
       IN  IF r.raised
           THEN Fail(2, "nodeV") /\ UNCHANGED out
           ELSE /\ Goto(2, "nvmDir")
                /\ nodeVersion' = r.value
                /\ out' = Append(out, log(2, "Version:", ""))
                /\ UNCHANGED <<raised, sysLocals, gitLocals, hasNvm, lastInstall, now, oldInstall>>
  /\ UNCHANGED <<columns, mainVars, pending, obs>>

NodeV ==
  /\ pcS[2] = "nodeV"
  /\ \E o \in Outcome, v \in Versions :
       LET r == exec(o, v \o <<"\n">>)
       IN  IF r.raised
           THEN Fail(2, "nodeV")
           ELSE /\ Goto(2, "nvmDir")
                /\ nodeVersion' = r.value
                /\ UNCHANGED <<raised, sysLocals, gitLocals, hasNvm, lastInstall, now, oldInstall>>
  /\ UNCHANGED <<columns, mainVars, out, pending, obs>>

NvmDir ==
  /\ pcS[2] = "nvmDir"
  /\ \E o \in Outcome, std \in NvmDirStdout :
       LET r == exec(o, std)
       IN  IF r.raised
           THEN Fail(2, "nvmDir")
           ELSE /\ Goto(2, "stat")
                /\ hasNvm' = (r.value # <<>>)
                /\ UNCHANGED <<raised, sysLocals, gitLocals, nodeVersion, lastInstall, now, oldInstall>>
  /\ UNCHANGED <<columns, mainVars, out, pending, obs>>

StatStart ==
  /\ pcS[2] = "stat"
  /\ pending' = pending \cup {"stat"}
  /\ Goto(2, "statWait")
  /\ UNCHANGED <<columns, mainVars, out, raised, obs, sysLocals, nodeLocals, gitLocals>>

\* fs.stat fails when ./node_modules/moment does not exist
StatDone ==
  /\ pcS[2] = "statWait"
  /\ \E o \in Outcome, birthtime \in Times :
       LET r == fsCall(o, birthtime)
       IN  IF r.raised
           THEN Fail(2, "statWait")
           ELSE /\ Goto(2, "oldInstall")
                /\ lastInstall' = r.value
                /\ UNCHANGED <<raised, sysLocals, gitLocals, nodeVersion, hasNvm, now, oldInstall>>
  /\ pending' = pending \ {"stat"}
  /\ UNCHANGED <<columns, mainVars, out, obs>>

OldInstall ==
  /\ pcS[2] = "oldInstall"
  /\ \E t \in Nows :
       /\ now' = t
       /\ oldInstall' = IsOldInstall(t, lastInstall)
  /\ Goto(2, "logVersion")
  /\ UNCHANGED <<columns, mainVars, out, pending, raised, obs, sysLocals, gitLocals,
                 nodeVersion, hasNvm, lastInstall>>

LogVersion == LogStep(2, "logVersion", "semver", log(2, "Version:", ""))

\* variant: a version mismatch ends the process with status 1
SemverCheck_Fatal ==
  /\ pcS[2] = "semver"
  /\ IF ~satisfies(nodeVersion, expected)
     THEN /\ out' = out \o << error(2, "mismatch", Mismatch(nodeVersion, expected)),
                               error(2, "remediation", Remediation(expected)) >>
          /\ exited' = TRUE
          /\ exitCode' = 1
          /\ Goto(2, "exited")
     ELSE /\ Goto(2, "npm")
          /\ UNCHANGED <<out, exited, exitCode>>
  /\ UNCHANGED <<columns, mainPc, mainSec, pending, raised, obs, sysLocals, nodeLocals, gitLocals>>

SemverCheck ==
  /\ pcS[2] = "semver"
  /\ out' = IF ~satisfies(nodeVersion, expected)
            THEN out \o << error(2, "mismatch", Mismatch(nodeVersion, expected)),
                           error(2, "remediation", Remediation(expected)) >>
            ELSE out
  /\ Goto(2, "npm")
  /\ UNCHANGED <<columns, mainVars, pending, raised, obs, sysLocals, nodeLocals, gitLocals>>

Npm ==
  /\ pcS[2] = "npm"
  /\ \E o \in Outcome :
       LET r == exec(o, <<"6", "\n">>)
       IN  IF r.raised
           THEN Fail(2, "npm") /\ UNCHANGED out
           ELSE /\ Goto(2, "logNvm")
                /\ out' = Append(out, log(2, "npm:", ""))
                /\ UNCHANGED <<raised, sysLocals, nodeLocals, gitLocals>>
  /\ UNCHANGED <<columns, mainVars, pending, obs>>

LogNvm == LogStep(2, "logNvm", "nvmCheck", log(2, "nvm:", Bool(hasNvm)))

NvmCheck ==
  /\ pcS[2] = "nvmCheck"
  /\ out' = IF ~hasNvm
            THEN out \o << error(2, "nvmMissing", <<"Node version manager missing; please install nvm.">>),
                           error(2, "nvmLink", <<"https://github.com/nvm-sh/nvm">>) >>
            ELSE out
  /\ Goto(2, "env")
  /\ UNCHANGED <<columns, mainVars, pending, raised, obs, sysLocals, nodeLocals, gitLocals>>

Env == LogStep(2, "env", "readdir", log(2, "Env:", ""))

ReaddirStart ==
  /\ pcS[2] = "readdir"
  /\ pending' = pending \cup {"readdir"}
  /\ Goto(2, "readdirWait")
  /\ UNCHANGED <<columns, mainVars, out, raised, obs, sysLocals, nodeLocals, gitLocals>>

ReaddirDone ==
  /\ pcS[2] = "readdirWait"
  /\ \E o \in Outcome :
       LET r == fsCall(o, 1)
       IN  IF r.raised
           THEN Fail(2, "readdirWait") /\ UNCHANGED out
           ELSE /\ Goto(2, "installed")
                /\ out' = Append(out, log(2, "Modules:", ""))
                /\ UNCHANGED <<raised, sysLocals, nodeLocals, gitLocals>>
  /\ pending' = pending \ {"readdir"}
  /\ UNCHANGED <<columns, mainVars, obs>>

Installed == LogStep(2, "installed", "stale", log(2, "Installed:", ""))

StaleCheck ==
  /\ pcS[2] = "stale"
  /\ out' = IF oldInstall
            THEN out \o << warn(2, "stale", <<"The last node_modules install is over a week old.">>),
                           warn(2, "reinstall", <<"Consider reinstalling dependencies: npm ci.">>) >>
            ELSE out
  /\ Goto(2, "blank")
  /\ UNCHANGED <<columns, mainVars, pending, raised, obs, sysLocals, nodeLocals, gitLocals>>

\* ------------------------------------------------------------ Git

\* variant: the threshold itself already warns
OverThreshold_AtLeast(d) == d >= threshold

\* difference > threshold
OverThreshold(d) == d > threshold

\* the commits on b that are not on the main branch: none when b is the main branch
Divergences(b) == IF b = mainBranch THEN {0} ELSE 0..MaxDiff

Branch ==
  /\ pcS[3] = "branch"
  /\ \E o \in Outcome, b \in Branches :
       LET r == exec(o, b \o <<"\n">>)
       IN  IF r.raised
           THEN Fail(3, "branch")
           ELSE /\ Goto(3, "difference")
                /\ branch' = r.value
                /\ UNCHANGED <<raised, sysLocals, nodeLocals, difference>>
  /\ UNCHANGED <<columns, mainVars, out, pending, obs>>

\* Number(exec(git log --oneline ${branch} ^${mainBranch} | wc -l))
Difference ==
  /\ pcS[3] = "difference"
  /\ \E o \in Outcome, n \in Divergences(branch) :
       LET r == exec(o, <<" ", " ">> \o Digits(n) \o <<"\n">>)
       IN  IF r.raised
           THEN Fail(3, "difference")
           ELSE /\ Goto(3, "logBranch")
                /\ difference' = Number(r.value)
                /\ UNCHANGED <<raised, sysLocals, nodeLocals, branch>>
  /\ UNCHANGED <<columns, mainVars, out, pending, obs>>

LogBranch == LogStep(3, "logBranch", "logDifference", log(3, "Branch:", ""))

LogDifference == LogStep(3, "logDifference", "threshold", log(3, "Difference:", difference))

ThresholdCheck ==
  /\ pcS[3] = "threshold"
  /\ out' = IF OverThreshold(difference)
            THEN Append(out, Line(3, "warn", "rebase", <<>>, ""))
            ELSE out
  /\ Goto(3, "lastCommit")
  /\ UNCHANGED <<columns, mainVars, pending, raised, obs, sysLocals, nodeLocals, gitLocals>>

LastCommit ==
  /\ pcS[3] = "lastCommit"
  /\ \E o \in Outcome :
       LET r == exec(o, <<"m", "\n", "\n">>)
       IN  IF r.raised
           THEN Fail(3, "lastCommit") /\ UNCHANGED out
           ELSE /\ Goto(3, "clean")
                /\ out' = Append(out, log(3, "Last commit:", ""))
                /\ UNCHANGED <<raised, sysLocals, nodeLocals, gitLocals>>
  /\ UNCHANGED <<columns, mainVars, pending, obs>>

Clean ==
  /\ pcS[3] = "clean"
  /\ \E o \in Outcome, std \in StatusStdout :
       LET r == exec(o, std)
       IN  IF r.raised
           THEN Fail(3, "clean") /\ UNCHANGED out
           ELSE /\ Goto(3, "blank")
                /\ out' = Append(out, log(3, "Clean:", Bool(r.value = <<>>)))
                /\ UNCHANGED <<raised, sysLocals, nodeLocals, gitLocals>>
  /\ UNCHANGED <<columns, mainVars, pending, obs>>

\* ------------------------------------------------------------ specification

Next ==
  \/ MainCall \/ MainNext \/ MainDone \/ MainRejected
  \/ \E s \in Sections : Banner(s)
  \/ \E s \in Sections : Blank(s)
  \/ PingStart \/ PingDone \/ Username \/ Distribution \/ Cpus
  \/ InternetStart \/ InternetDone \/ Vpn \/ Docker
  \/ NodeV \/ NvmDir \/ StatStart \/ StatDone \/ OldInstall \/ LogVersion
  \/ SemverCheck \/ Npm \/ LogNvm \/ NvmCheck \/ Env
  \/ ReaddirStart \/ ReaddirDone \/ Installed \/ StaleCheck
  \/ Branch \/ Difference \/ LogBranch \/ LogDifference \/ ThresholdCheck
  \/ LastCommit \/ Clean

Spec == Init /\ [][Next]_vars

\* ------------------------------------------------------------ reading the output

LinesOf(s) == SelectSeq(out, LAMBDA l : By(l) = s)
TagsOf(s) == LET sel == LinesOf(s) IN [i \in 1..Len(sel) |-> Tag(sel[i])]
HasLine(s, tag) == \E i \in DOMAIN out : By(out[i]) = s /\ Tag(out[i]) = tag
Opt(b, tags) == IF b THEN tags ELSE <<>>

BannerTags == <<"divider", "title", "divider">>
SystemTags ==
  BannerTags \o <<"Username:", "Distribution:", "CPUs:", "Internet:", "VPN:", "Docker running:">>
NodeTags ==
  BannerTags \o <<"Version:">>
    \o Opt(HasLine(2, "mismatch"), <<"mismatch", "remediation">>)
    \o <<"npm:", "nvm:">>
    \o Opt(HasLine(2, "nvmMissing"), <<"nvmMissing", "nvmLink">>)
    \o <<"Env:", "Modules:", "Installed:">>
    \o Opt(HasLine(2, "stale"), <<"stale", "reinstall">>)
GitTags ==
  BannerTags \o <<"Branch:", "Difference:">>
    \o Opt(HasLine(3, "rebase"), <<"rebase">>)
    \o <<"Last commit:", "Clean:">>

Settled == {"idle", "returned", "rejected"}
AllComplete == \A s \in Sections : pcS[s] = "returned"
UntrappedChecks ==
  {"nodeV", "nvmDir", "statWait", "npm", "readdirWait",
   "branch", "difference", "lastCommit", "clean"}

\* ------------------------------------------------------------ C1

\* C1: the sections run in the order System, Node, Git: whatever a section prints
\* comes after the trailing blank line of the section before it, whose promise is
\* then fulfilled, and at most one section invocation is under way at any time.
C1_SectionsInOrder ==
  /\ Cardinality({s \in Sections : pcS[s] \notin Settled}) <= 1
  /\ \A i \in 1..(Len(out) - 1) : By(out[i]) <= By(out[i + 1])
  /\ \A j \in DOMAIN out :
       /\ Tag(out[j]) = "title" =>
            SubSeq(Text(out[j]), 3, 2 + Len(Titles[By(out[j])])) = Titles[By(out[j])]
       /\ By(out[j]) > 1 =>
            /\ pcS[By(out[j]) - 1] = "returned"
            /\ HasLine(By(out[j]) - 1, "blank")
  /\ \A s \in Sections : s > 1 /\ pcS[s] # "idle" => pcS[s - 1] = "returned"

C1_Witness == pcS[3] = "returned" /\ HasLine(1, "title") /\ HasLine(2, "title") /\ HasLine(3, "title")

\* ------------------------------------------------------------ C2

\* C2: when an untrapped check fails, no later check of its section runs or prints,
\* no later section starts, and the process ends with a non-zero exit status; the
\* exit status is 0 only if all three sections ran to completion.
C2_FailureExitsNonZero ==
  /\ raised \in UntrappedChecks =>
       /\ pending = {}
       /\ \A s \in Sections : pcS[s] \in Settled
       /\ \A s \in Sections : pcS[s] = "rejected" => \A t \in Sections : t > s => pcS[t] = "idle"
       /\ exited => exitCode # 0
  /\ exited /\ exitCode = 0 => AllComplete

\* The part of C2 that does not concern the exit status: once a check has raised,
\* nothing more is printed and no section moves.
C2_FailureAborts ==
  /\ [](raised # "none" =>
          /\ pending = {}
          /\ \A s \in Sections : pcS[s] \in Settled
          /\ \A s \in Sections : pcS[s] = "rejected" => \A t \in Sections : t > s => pcS[t] = "idle")
  /\ [][raised # "none" => out' = out /\ pcS' = pcS]_vars

\* ------------------------------------------------------------ C3

\* C3: the three trapped checks never raise and report success exactly when the
\* probe succeeded; so whatever the three outcomes, the System section prints its
\* six lines, in order, and the run goes on to the Node section.
C3_TrappedChecksNeverRaise ==
  /\ raised \notin {"pingWait", "internetWait", "docker"}
  /\ \A i \in DOMAIN out :
       /\ Tag(out[i]) = "VPN:" => Val(out[i]) = Bool(obs.https = "ok")
       /\ Tag(out[i]) = "Internet:" => Val(out[i]) = Bool(obs.dns = "ok")
       /\ Tag(out[i]) = "Docker running:" => Val(out[i]) = Bool(obs.docker = "ok")
  /\ pcS[1] = "blank" => TagsOf(1) = SystemTags
  /\ pcS[1] = "returned" =>
       /\ TagsOf(1) = SystemTags \o <<"blank">>
       /\ \/ pcS[2] # "idle"
          \/ mainSec = 1 /\ ENABLED MainNext
          \/ mainSec = 2 /\ ENABLED MainCall
  /\ exited /\ pcS[1] \notin {"idle", "banner"} /\ raised # "banner" =>
       pcS[1] = "returned" /\ pcS[2] # "idle"

C3_Witness ==
  /\ obs.https = "fail" /\ obs.dns = "fail" /\ obs.docker = "fail"
  /\ TagsOf(1) = SystemTags \o <<"blank">>
  /\ HasLine(2, "title")

\* ------------------------------------------------------------ C4

\* C4: with "v12.18.3" expected, an installed version that does not satisfy it
\* gives exactly two error lines, the mismatch message and then a remediation
\* command that contains "12.18.3"; the installed version "v12.18.3" gives none.
C4_MismatchRemediation ==
  pcS[2] = "npm" =>
    LET errs == SelectSeq(LinesOf(2), LAMBDA l : Ch(l) = "error")
    IN  IF nodeVersion = <<"v", "1", "2", ".", "1", "8", ".", "3">>
        THEN errs = <<>>
        ELSE /\ Len(errs) = 2
             /\ Tag(errs[1]) = "mismatch"
             /\ Tag(errs[2]) = "remediation"
             /\ Contains(Text(errs[2]), <<"1", "2", ".", "1", "8", ".", "3">>)

\* ------------------------------------------------------------ C5

\* C5: once the divergence check is done, the rebase warning is in the output
\* exactly when the count that was printed is greater than 10, for every count;
\* with or without it the section goes on to the 'Last commit' and 'Clean' lines,
\* which follow it whenever the section completes.
C5_RebaseWarning ==
  /\ \A i \in DOMAIN out :
       Tag(out[i]) = "Difference:" /\ pcS[3] # "threshold" =>
         (HasLine(3, "rebase") <=> Val(out[i]) > 10)
  /\ pcS[3] \in {"lastCommit", "clean", "blank"} =>
       (HasLine(3, "rebase") <=> difference > 10)
  /\ pcS[3] = "blank" => TagsOf(3) = GitTags
  /\ pcS[3] = "returned" => TagsOf(3) = GitTags \o <<"blank">>
  /\ exited /\ raised = "none" => pcS[3] = "returned"

C5_Witness ==
  /\ pcS[3] = "returned"
  /\ TagsOf(3) = BannerTags \o <<"Branch:", "Difference:", "rebase", "Last commit:", "Clean:", "blank">>
  /\ \E i \in DOMAIN out : Tag(out[i]) = "Difference:" /\ Val(out[i]) = 11

\* ------------------------------------------------------------ C6

\* C6: when the Node body is over, the two stale-dependency warnings are in the
\* output, one after the other, exactly when at least 7 whole days lie between the
\* creation time of ./node_modules/moment and the time read, for every creation
\* time that is not later than the time read.
C6_StaleWarning ==
  /\ pcS[2] \in {"logVersion", "semver", "npm", "logNvm", "nvmCheck", "env", "readdir",
                 "readdirWait", "installed", "stale", "blank"} /\ lastInstall <= now =>
       (oldInstall <=> now - lastInstall >= 7 * DayUnits)
  /\ pcS[2] = "blank" /\ lastInstall <= now =>
       /\ HasLine(2, "stale") <=> now - lastInstall >= 7 * DayUnits
       /\ HasLine(2, "reinstall") <=> HasLine(2, "stale")
       /\ TagsOf(2) = NodeTags

C6_Witness ==
  /\ pcS[2] = "blank"
  /\ now - lastInstall = 7 * DayUnits
  /\ HasLine(2, "stale") /\ HasLine(2, "reinstall")

\* ------------------------------------------------------------ C7

WellFormedBanner(s, W) ==
  LET ls == LinesOf(s)
      T  == Titles[s]
  IN  /\ Len(ls) >= 3
      /\ Tag(ls[1]) = "divider" /\ Text(ls[1]) = [i \in 1..W |-> "="]
      /\ Tag(ls[3]) = "divider" /\ Text(ls[3]) = [i \in 1..W |-> "="]
      /\ Tag(ls[2]) = "title"
      /\ Len(Text(ls[2])) = W
      /\ SubSeq(Text(ls[2]), 1, 2) = <<"*", " ">>
      /\ SubSeq(Text(ls[2]), 3, 2 + Len(T)) = T
      /\ \A i \in (3 + Len(T))..(W - 2) : Text(ls[2])[i] = " "
      /\ SubSeq(Text(ls[2]), W - 1, W) = <<" ", "*">>

\* C7 as stated: for every terminal width W and every title T, once section(T, body)
\* is past its banner the title line has length W, starts with the marker and T and
\* ends with the end marker, and both dividers have length W.
C7_BannerEveryWidth ==
  \A s \in Sections : pcS[s] \notin {"idle", "banner"} => WellFormedBanner(s, columns)

\* C7 amended: the same for every terminal width W that is a number not smaller
\* than the title's length plus 4; the body's lines come after the three lines.
C7_BannerWideEnough ==
  \A s \in Sections :
    pcS[s] \notin {"idle", "banner"} /\ columns # Undefined /\ columns >= Len(Titles[s]) + 4 =>
      /\ WellFormedBanner(s, columns)
      /\ pcS[s] # "rejected" \/ raised # "banner"

C7_Witness == columns = 10 /\ pcS[1] = "ping" /\ pcS[2] = "idle"

\* ------------------------------------------------------------ C8

\* C8: the advisory findings are not fatal: a run in which nothing raises ends with
\* all three sections complete and exit status 0, whichever of the four findings
\* were reported, and every line that follows a finding in its section is printed;
\* right after each of the four checks the run can go on.
C8_AdvisoriesNotFatal ==
  /\ exited /\ raised = "none" =>
       /\ AllComplete
       /\ exitCode = 0
       /\ TagsOf(1) = SystemTags \o <<"blank">>
       /\ TagsOf(2) = NodeTags \o <<"blank">>
       /\ TagsOf(3) = GitTags \o <<"blank">>
  /\ ~exited /\ raised = "none" /\ (pcS[2] \in {"npm", "env", "blank"} \/ pcS[3] = "lastCommit") =>
       ENABLED Next

C8_Witness ==
  /\ exited /\ exitCode = 0 /\ raised = "none"
  /\ HasLine(2, "mismatch") /\ HasLine(2, "nvmMissing") /\ HasLine(2, "stale")
  /\ HasLine(3, "rebase") /\ HasLine(3, "Clean:")

\* ------------------------------------------------------------ C9

\* C9: at most one asynchronous operation is in flight, one is started only when
\* none is in flight, and no step that leaves one in flight prints anything (the
\* line that reports an operation's result is printed by the step that ends it).
C9_OneAtATime ==
  /\ [](Cardinality(pending) <= 1)
  /\ [][/\ pending' # {} => out' = out
        /\ pending' # pending /\ pending' # {} => pending = {}]_vars

C9_Witness == pending = {"readdir"} /\ HasLine(1, "Internet:") /\ HasLine(2, "Env:")

\* ------------------------------------------------------------ C10

\* C10: when the stat of ./node_modules/moment fails, the Node banner is printed
\* but no line of the Node body and no trailing blank line ever is, the Git
\* section never starts, and the System section's output is complete.
C10_MissingMoment ==
  raised = "statWait" =>
    /\ pcS[2] = "rejected"
    /\ TagsOf(2) = BannerTags
    /\ pcS[3] = "idle"
    /\ TagsOf(3) = <<>>
    /\ TagsOf(1) = SystemTags \o <<"blank">>

C10_Witness == raised = "statWait" /\ exited /\ mainPc = "rejected"

====
